---- MODULE Spec2Model ----
(***************************************************************************)
(* Export view-models of the Bookkeeping front end.                        *)
(*                                                                         *)
(*   OverviewExportModel          lib/public/models/OverviewExportModel.js *)
(*   RunsPerDataPassExportModel   the specialisation that fetches QC flags *)
(*                                                                         *)
(* One model object is modelled.  Its handlers run on the UI event loop:   *)
(* a handler runs to completion or to its next `await`, so every action    *)
(* below is one synchronous stretch of code.  The only awaits are the      *)
(* remote QC-flag lookups of RunsPerDataPassExportModel._fetchQcFlags.     *)
(***************************************************************************)
EXTENDS Integers, Sequences, FiniteSets, TLC

(***************************************************************************)
(* Bounds of the explored inputs.                                          *)
(***************************************************************************)
MaxItems == 2       \* longest payload of a success snapshot
MaxFields == 2      \* longest selection handed to setSelectedFields

(***************************************************************************)
(* Program constants.                                                      *)
(***************************************************************************)
PageLimit == 1000

\* `undefined` as a data pass id; 0 is falsy too.
NoDataPass == -1
DataPassIds == {NoDataPass, 1}
\* mutant: the guard on the data pass id is missing
AlwaysFetch(id) == TRUE
Truthy(id) == id # NoDataPass /\ id # 0

Variants == {"base", "enriched"}
Calls == {1, 2}     \* createExport invocations that may be in flight together
ExportTypes == {"JSON", "CSV"}
FieldKeys == {"runNumber", "runDuration"}
FileNames == {"runs"}

Range(s) == {s[k] : k \in DOMAIN s}

(***************************************************************************)
(* Data: QC flags, runs, RemoteData snapshots, formatter registries.       *)
(* An empty name stands for an absent detector / flag type (or name).      *)
(***************************************************************************)
QcFlag(det, type, from, to) ==
    [detector |-> det, flagType |-> type, from |-> from, to |-> to]

TpcFlags == <<QcFlag("TPC", "BAD", 10, 20), QcFlag("", "BAD", 10, 20), QcFlag("TPC", "", 20, 30)>>
MixedFlags == <<QcFlag("ITS", "GOOD", 10, 20), QcFlag("TPC", "GOOD", 30, 40)>>
\* what a remote lookup may resolve with
Responses == {TpcFlags, MixedFlags}

\* An item of the payload: its own fields and the optional qcFlags property.
\* Run numbers identify the runs of a payload.  Payloads alternate a run that
\* carries every field and its own flags with a run that has neither the
\* optional field nor a qcFlags property.
Run(k, flagged) ==
    IF flagged
    THEN [fields |-> [runNumber |-> k, runDuration |-> 7],
          hasQc |-> TRUE, qcFlags |-> TpcFlags]
    ELSE [fields |-> [runNumber |-> k],
          hasQc |-> FALSE, qcFlags |-> <<>>]
Payload(n) == [k \in 1..n |-> Run(k, k % 2 = 1)]
Payloads == {Payload(n) : n \in 0..MaxItems}

RemoteDataOf(kind, payload) == [kind |-> kind, payload |-> payload]
Snapshots ==
    {RemoteDataOf(kind, <<>>) : kind \in {"NotAsked", "Loading", "Failure"}}
        \cup {RemoteDataOf("Success", p) : p \in Payloads}
isSuccess(rd) == rd.kind = "Success"

\* exportFormats argument: field key -> { exportFormat }
\* runNumber has an entry without formatter, runDuration a formatter that
\* also reads a sibling field of the item.
DurationFormat ==
    [runNumber |-> [exportFormat |-> ""], runDuration |-> [exportFormat |-> "withRun"]]
Registries == {DurationFormat}
CallFormatter(tag, value, item) ==
    IF tag = "withRun" THEN value * 100 + item.fields.runNumber ELSE value

\* selectedOptions argument: an iterable of objects carrying `value`
Selections ==
    UNION {[1..n -> {[value |-> key] : key \in FieldKeys}] : n \in 0..MaxFields}

(***************************************************************************)
(* Observable effects of a handler.                                        *)
(***************************************************************************)
Notification(channel, fields, type) ==
    [kind |-> channel, seenFields |-> fields, seenType |-> type]
OnError(failure) == [kind |-> "onError", failure |-> failure]
SinkCall(sink, name, mime, rows) ==
    [kind |-> "sink", sink |-> sink, name |-> name, mime |-> mime, rows |-> rows]
Request(call, idx, runNumber, pass) ==
    [call |-> call, idx |-> idx, runNumber |-> runNumber,
     dataPassId |-> pass, limit |-> PageLimit]
RequestSent(req) == [kind |-> "request", request |-> req]

NoDataFailure ==
    [title |-> "No data found",
     detail |-> "No items were found with the provided filters"]
QcFetchFailure ==
    [title |-> "QC flags fetch failed",
     detail |-> "Unable to fetch QC flags for export"]

(***************************************************************************)
(* The formatting pipeline.                                                *)
(***************************************************************************)
\* Object.fromEntries: a key keeps its first position and its last value.
RECURSIVE FromEntriesInto(_, _)
FromEntriesInto(obj, entries) ==
    IF entries = <<>> THEN obj
    ELSE LET e == Head(entries)
             at == {k \in DOMAIN obj : obj[k][1] = e[1]}
         IN FromEntriesInto(
                IF at = {} THEN Append(obj, e)
                ELSE [k \in DOMAIN obj |-> IF k \in at THEN e ELSE obj[k]],
                Tail(entries))
ObjectFromEntries(entries) == FromEntriesInto(<<>>, entries)
Keys(obj) == {obj[k][1] : k \in DOMAIN obj}
Get(obj, key) == obj[CHOOSE k \in DOMAIN obj : obj[k][1] = key][2]

\* utilities/pick.js
RECURSIVE PickEntries(_, _)
PickEntries(item, keys) ==
    IF keys = <<>> THEN <<>>
    ELSE (IF Head(keys) \in DOMAIN item.fields
          THEN <<<<Head(keys), item.fields[Head(keys)]>>>> ELSE <<>>)
         \o PickEntries(item, Tail(keys))
pick(item, keys) == ObjectFromEntries(PickEntries(item, keys))

\* Array.prototype.join
RECURSIVE join(_, _)
join(texts, sep) ==
    IF texts = <<>> THEN ""
    ELSE IF Len(texts) = 1 THEN texts[1]
    ELSE texts[1] \o sep \o join(Tail(texts), sep)

\* `${flagType?.name ?? ''} ( from: ${from} to: ${to} )`
FlagText(flag) ==
    flag.flagType \o " ( from: " \o ToString(flag.from)
                  \o " to: " \o ToString(flag.to) \o " )"

\* the `detectors` Set, in insertion order
RECURSIVE AddDetectors(_, _)
AddDetectors(detectors, flags) ==
    IF flags = <<>> THEN detectors
    ELSE AddDetectors(
            IF Head(flags).detector # "" /\ Head(flags).detector \notin Range(detectors)
            THEN Append(detectors, Head(flags).detector) ELSE detectors,
            Tail(flags))
RECURSIVE DetectorsInto(_, _)
DetectorsInto(detectors, items) ==
    IF items = <<>> THEN detectors
    ELSE DetectorsInto(
            IF Head(items).hasQc THEN AddDetectors(detectors, Head(items).qcFlags)
            ELSE detectors,
            Tail(items))
Detectors(items) == DetectorsInto(<<>>, items)

\* perDetectorFlags[det] || []
RECURSIVE PerDetectorFlags(_, _)
PerDetectorFlags(flags, det) ==
    IF flags = <<>> THEN <<>>
    ELSE (IF Head(flags).detector # "" /\ Head(flags).detector = det
          THEN <<FlagText(Head(flags))>> ELSE <<>>)
         \o PerDetectorFlags(Tail(flags), det)

FormatEntry(entry, item, exportFormats) ==
    LET key == entry[1]
        tag == IF key \in DOMAIN exportFormats THEN exportFormats[key].exportFormat ELSE ""
    IN <<key, IF tag # "" THEN CallFormatter(tag, entry[2], item) ELSE entry[2]>>

\* mutant: a row gets columns only for the detectors of its own flags
FormatItemOwnColumns(item, selectedFields, exportFormats, detectors) ==
    LET entries == pick(item, selectedFields)
        mapped == [k \in DOMAIN entries |-> FormatEntry(entries[k], item, exportFormats)]
        flags == IF item.hasQc THEN item.qcFlags ELSE <<>>
        own == AddDetectors(<<>>, flags)
        columns == [d \in DOMAIN own |->
                       <<own[d], join(PerDetectorFlags(flags, own[d]), "|")>>]
    IN ObjectFromEntries(mapped \o columns)

FormatItem(item, selectedFields, exportFormats, detectors) ==
    LET entries == pick(item, selectedFields)
        mapped == [k \in DOMAIN entries |-> FormatEntry(entries[k], item, exportFormats)]
        flags == IF item.hasQc THEN item.qcFlags ELSE <<>>
        columns == [d \in DOMAIN detectors |->
                       <<detectors[d], join(PerDetectorFlags(flags, detectors[d]), "|")>>]
    IN ObjectFromEntries(mapped \o columns)

\* OverviewExportModel.createExport, `formatted`
Formatted(items, selectedFields, exportFormats) ==
    [k \in DOMAIN items |->
        FormatItem(items[k], selectedFields, exportFormats, Detectors(items))]

\* RunsPerDataPassExportModel.createExport, `formatted`
FormattedWithFlags(itemsWithFlags, selectedFields, exportFormats) ==
    [k \in DOMAIN itemsWithFlags |->
        FormatItem(itemsWithFlags[k], selectedFields, exportFormats,
                   Detectors(itemsWithFlags))]

\* mutant: the CSV branch names its file like the JSON branch
DispatchJsonName(formatted, fileName, exportType) ==
    IF exportType = "CSV"
    THEN <<SinkCall("createCSVExport", fileName \o ".json", "text/csv;charset=utf-8;", formatted)>>
    ELSE <<SinkCall("createJSONExport", fileName \o ".json", "application/json", formatted)>>

\* the final conditional of createExport
Dispatch(formatted, fileName, exportType) ==
    IF exportType = "CSV"
    THEN <<SinkCall("createCSVExport", fileName \o ".csv", "text/csv;charset=utf-8;", formatted)>>
    ELSE <<SinkCall("createJSONExport", fileName \o ".json", "application/json", formatted)>>

\* mutant: the early exit forgets this.notify()
EmptyExitSilent(setError, fields, type) ==
    IF setError THEN <<OnError(NoDataFailure)>> ELSE <<>>

\* the early exit shared by both createExport bodies
EmptyExit(setError, fields, type) ==
    (IF setError THEN <<OnError(NoDataFailure)>> ELSE <<>>)
        \o <<Notification("notify", fields, type)>>

\* OverviewExportModel.createExport has no await: everything it emits
OverviewCreateExport(rd, fields, type, fileName, exportFormats, setError) ==
    LET items == IF isSuccess(rd) THEN rd.payload ELSE <<>>
    IN IF ~isSuccess(rd) \/ Len(items) = 0
       THEN EmptyExit(setError, fields, type)
       ELSE Dispatch(Formatted(items, fields, exportFormats), fileName, type)

\* mutant: the lookups are started together (Promise.all)
AllLookups(call, items, pass) ==
    {Request(call, k, items[k].fields.runNumber, pass) : k \in DOMAIN items}

\* _fetchQcFlags: the lookups outstanding when the loop first suspends
FirstLookups(call, items, pass) ==
    {Request(call, 1, items[1].fields.runNumber, pass)}

\* mutant: a rejected lookup discards what was fetched so far
FetchedOrReset(map, runNumber, ok, items) ==
    IF ok THEN (runNumber :> items) @@ map ELSE <<>>

\* _fetchQcFlags: one lookup settled, `map[runNumber] = items` or the catch
Fetched(map, runNumber, ok, items) ==
    (runNumber :> (IF ok THEN items ELSE <<>>)) @@ map

\* mutant: the abort reports the payload of the early exit
AbortAsNoData(setError) ==
    IF setError THEN <<OnError(NoDataFailure)>> ELSE <<>>

\* the catch around the enrichment phase
AbortExport(setError) ==
    IF setError THEN <<OnError(QcFetchFailure)>> ELSE <<>>

(***************************************************************************)
(* State.                                                                  *)
(***************************************************************************)
VARIABLES
    variant,            \* which class the model object is
    itemsSrc,           \* what _items$.getCurrent() returns
    selectedFields,     \* _selectedFields
    selectedExportType, \* _selectedExportType
    dataPassId,         \* _dataPassId
    calls,              \* locals of the suspended createExport invocations
    pending,            \* remote QC-flag requests not yet settled
    effects,            \* what the last handler step emitted, in order
    last                \* the handler call that returned in the last step

vars == <<variant, itemsSrc, selectedFields, selectedExportType, dataPassId,
          calls, pending, effects, last>>
config == <<selectedFields, selectedExportType, itemsSrc, dataPassId>>

Idle == [pc |-> "idle"]
Returned(op) == [op |-> op]

Init ==
    /\ variant \in Variants
    /\ itemsSrc \in Snapshots
    /\ selectedFields = <<>>
    /\ selectedExportType = "JSON"
    /\ dataPassId \in (IF variant = "enriched" THEN DataPassIds ELSE {NoDataPass})
    /\ calls = [i \in Calls |-> Idle]
    /\ pending = {}
    /\ effects = <<>>
    /\ last = Returned("constructor")

(***************************************************************************)
(* Setters.                                                                *)
(***************************************************************************)
\* another observable is bound; rd is its current value
setItemsSource(rd) ==
    /\ itemsSrc' = rd
    /\ effects' = <<>>
    /\ last' = Returned("setItemsSource")
    /\ UNCHANGED <<variant, selectedFields, selectedExportType, dataPassId, calls, pending>>

\* the owner of the bound observable publishes a new value
setCurrent(rd) ==
    /\ rd # itemsSrc
    /\ itemsSrc' = rd
    /\ effects' = <<>>
    /\ last' = Returned("setCurrent")
    /\ UNCHANGED <<variant, selectedFields, selectedExportType, dataPassId, calls, pending>>

setSelectedExportType(exportType) ==
    /\ selectedExportType' = exportType
    /\ effects' = <<Notification("notify", selectedFields, exportType),
                    Notification("visualChange", selectedFields, exportType)>>
    /\ last' = [op |-> "setSelectedExportType", exportType |-> exportType]
    /\ UNCHANGED <<variant, itemsSrc, selectedFields, dataPassId, calls, pending>>

\* mutant: the previous selection is not cleared
setSelectedFieldsAppends(selectedOptions) ==
    LET pushed == [k \in DOMAIN selectedOptions |-> selectedOptions[k].value]
    IN /\ selectedFields' = selectedFields \o pushed
       /\ effects' = <<Notification("notify", selectedFields', selectedExportType),
                       Notification("visualChange", selectedFields', selectedExportType)>>
       /\ last' = [op |-> "setSelectedFields", selectedOptions |-> selectedOptions]
       /\ UNCHANGED <<variant, itemsSrc, selectedExportType, dataPassId, calls, pending>>

setSelectedFields(selectedOptions) ==
    LET pushed == [k \in DOMAIN selectedOptions |-> selectedOptions[k].value]
    IN /\ selectedFields' = <<>> \o pushed
       /\ effects' = <<Notification("notify", selectedFields', selectedExportType),
                       Notification("visualChange", selectedFields', selectedExportType)>>
       /\ last' = [op |-> "setSelectedFields", selectedOptions |-> selectedOptions]
       /\ UNCHANGED <<variant, itemsSrc, selectedExportType, dataPassId, calls, pending>>

setDataPassId(id) ==
    /\ variant = "enriched"
    /\ dataPassId' = id
    /\ effects' = <<>>
    /\ last' = Returned("setDataPassId")
    /\ UNCHANGED <<variant, itemsSrc, selectedFields, selectedExportType, calls, pending>>

(***************************************************************************)
(* createExport.                                                           *)
(***************************************************************************)
\* What is recorded of an invocation when it returns: its arguments, what it
\* read, the items it formatted (`used`) and what its lookups did.
ReturnedExport(outcome, c, used, thrown) ==
    [op |-> "createExport", variant |-> variant, outcome |-> outcome,
     snapshot |-> c.snapshot, items |-> c.items, used |-> used,
     fields |-> selectedFields, type |-> selectedExportType,
     fileName |-> c.fileName, exportFormats |-> c.exportFormats,
     setError |-> c.setError, passAtCall |-> c.passAtCall, thrown |-> thrown,
     rejected |-> c.rejected, fetched |-> c.fetched]

Locals(rd, fileName, exportFormats, setError) ==
    [pc |-> "fetching", snapshot |-> rd,
     items |-> IF isSuccess(rd) THEN rd.payload ELSE <<>>,
     fileName |-> fileName, exportFormats |-> exportFormats, setError |-> setError,
     passAtCall |-> dataPassId, idx |-> 0, map |-> <<>>,
     rejected |-> {}, fetched |-> <<>>]

\* mutant: the items are read again from the source after the lookups
EnrichedCurrentItems(c) ==
    LET items == IF isSuccess(itemsSrc) THEN itemsSrc.payload ELSE <<>>
    IN [k \in DOMAIN items |->
           [items[k] EXCEPT
               !.hasQc = TRUE,
               !.qcFlags = IF items[k].fields.runNumber \in DOMAIN c.map
                           THEN c.map[items[k].fields.runNumber] ELSE <<>>]]

\* `items.map((run) => ({ ...run, qcFlags: qcMap[run.runNumber] || [] }))`
EnrichedItems(c) ==
    [k \in DOMAIN c.items |->
        [c.items[k] EXCEPT
            !.hasQc = TRUE,
            !.qcFlags = IF c.items[k].fields.runNumber \in DOMAIN c.map
                        THEN c.map[c.items[k].fields.runNumber] ELSE <<>>]]

\* mutant: the early exit clears the selected fields
BaseCreateExportResets(fileName, exportFormats, setError) ==
    LET c == Locals(itemsSrc, fileName, exportFormats, setError)
        empty == ~isSuccess(c.snapshot) \/ Len(c.items) = 0
    IN /\ variant = "base"
       /\ effects' = OverviewCreateExport(itemsSrc, selectedFields, selectedExportType,
                                          fileName, exportFormats, setError)
       /\ last' = IF empty THEN ReturnedExport("empty", c, <<>>, FALSE)
                  ELSE ReturnedExport("exported", c, c.items, FALSE)
       /\ selectedFields' = IF empty THEN <<>> ELSE selectedFields
       /\ UNCHANGED <<variant, selectedExportType, itemsSrc, dataPassId, calls, pending>>

\* OverviewExportModel.createExport
BaseCreateExport(fileName, exportFormats, setError) ==
    LET c == Locals(itemsSrc, fileName, exportFormats, setError)
        empty == ~isSuccess(c.snapshot) \/ Len(c.items) = 0
    IN /\ variant = "base"
       /\ effects' = OverviewCreateExport(itemsSrc, selectedFields, selectedExportType,
                                          fileName, exportFormats, setError)
       /\ last' = IF empty THEN ReturnedExport("empty", c, <<>>, FALSE)
                  ELSE ReturnedExport("exported", c, c.items, FALSE)
       /\ UNCHANGED <<variant, config, calls, pending>>

\* RunsPerDataPassExportModel.createExport up to its first await.
\* `thrown`: the enrichment phase throws before the first lookup.
EnrichedCreateExport(i, fileName, exportFormats, setError, thrown) ==
    LET c == Locals(itemsSrc, fileName, exportFormats, setError)
    IN /\ variant = "enriched"
       /\ calls[i].pc = "idle"
       /\ IF ~isSuccess(c.snapshot) \/ Len(c.items) = 0
          THEN /\ effects' = EmptyExit(setError, selectedFields, selectedExportType)
               /\ last' = ReturnedExport("empty", c, <<>>, FALSE)
               /\ UNCHANGED <<calls, pending>>
          ELSE IF ~Truthy(dataPassId)
          THEN /\ effects' = Dispatch(FormattedWithFlags(c.items, selectedFields, exportFormats),
                                      fileName, selectedExportType)
               /\ last' = ReturnedExport("exported", c, c.items, FALSE)
               /\ UNCHANGED <<calls, pending>>
          ELSE IF thrown
          THEN /\ effects' = AbortExport(setError)
               /\ last' = ReturnedExport("aborted", c, <<>>, TRUE)
               /\ UNCHANGED <<calls, pending>>
          ELSE /\ calls' = [calls EXCEPT ![i] = [c EXCEPT !.idx = 1]]
               /\ pending' = pending \cup FirstLookups(i, c.items, dataPassId)
               /\ effects' = <<RequestSent(Request(i, 1, c.items[1].fields.runNumber, dataPassId))>>
               /\ last' = Returned("await")
       /\ UNCHANGED <<variant, config>>

\* A lookup settles; _fetchQcFlags and createExport run on to the next await
\* or to the end.  `thrown`: the enrichment phase throws after the last lookup.
Settle(req, ok, items, thrown) ==
    LET i == req.call
        c0 == calls[i]
        c == [c0 EXCEPT !.map = Fetched(c0.map, req.runNumber, ok, items),
                        !.rejected = IF ok THEN @ ELSE @ \cup {req.idx},
                        !.fetched = IF ok THEN (req.idx :> items) @@ @ ELSE @]
    IN /\ req \in pending
       /\ c0.pc = "fetching"
       /\ IF c.idx < Len(c.items)
          THEN LET next == Request(i, c.idx + 1, c.items[c.idx + 1].fields.runNumber, dataPassId)
               IN /\ calls' = [calls EXCEPT ![i] = [c EXCEPT !.idx = c.idx + 1]]
                  /\ pending' = (pending \ {req}) \cup {next}
                  /\ effects' = <<RequestSent(next)>>
                  /\ last' = Returned("await")
          ELSE /\ calls' = [calls EXCEPT ![i] = Idle]
               /\ pending' = pending \ {req}
               /\ IF thrown
                  THEN /\ effects' = AbortExport(c.setError)
                       /\ last' = ReturnedExport("aborted", c, <<>>, TRUE)
                  ELSE /\ effects' = Dispatch(FormattedWithFlags(EnrichedItems(c), selectedFields,
                                                                 c.exportFormats),
                                              c.fileName, selectedExportType)
                       /\ last' = ReturnedExport("exported", c, EnrichedItems(c), FALSE)
       /\ UNCHANGED <<variant, config>>

(***************************************************************************)
(* Specifications.                                                         *)
(*   Spec         exports are started one after the other                  *)
(*   SpecOverlap  a second export may start while the first is suspended   *)
(***************************************************************************)
ExportAlone ==
    \E f \in FileNames, r \in Registries, e \in BOOLEAN, t \in BOOLEAN :
        pending = {} /\ EnrichedCreateExport(1, f, r, e, t)

ExportOverlapping ==
    \E i \in Calls, f \in FileNames, r \in Registries, e \in BOOLEAN, t \in BOOLEAN :
        EnrichedCreateExport(i, f, r, e, t)

LookupSettles ==
    \E req \in pending, ok \in BOOLEAN, items \in Responses, t \in BOOLEAN :
        Settle(req, ok, items, t)

Next ==
    \/ \E rd \in Snapshots : setItemsSource(rd)
    \/ \E rd \in Snapshots : setCurrent(rd)
    \/ \E t \in ExportTypes : setSelectedExportType(t)
    \/ \E s \in Selections : setSelectedFields(s)
    \/ \E id \in DataPassIds : setDataPassId(id)
    \/ \E f \in FileNames, r \in Registries, e \in BOOLEAN : BaseCreateExport(f, r, e)
    \/ ExportAlone
    \/ LookupSettles

Spec == Init /\ [][Next]_vars

InitOverlap == Init /\ variant = "enriched"

NextOverlap ==
    \/ \E rd \in Snapshots : setItemsSource(rd)
    \/ ExportOverlapping
    \/ LookupSettles

SpecOverlap == InitOverlap /\ [][NextOverlap]_vars

(***************************************************************************)
(* Properties.                                                             *)
(***************************************************************************)
Of(kind) == SelectSeq(effects, LAMBDA e : e.kind = kind)
ExportReturned == last.op = "createExport"
Exported == ExportReturned /\ last.outcome = "exported"
NothingToExport(rd) == rd.kind # "Success" \/ rd.payload = <<>>

\* the names of the categories found in the annotations of a batch
CategoryNames(items) ==
    UNION {{items[k].qcFlags[j].detector : j \in DOMAIN items[k].qcFlags} :
              k \in {n \in DOMAIN items : items[n].hasQc}} \ {""}

\* C1: createExport on a not-asked, loading, failure or empty-success
\* snapshot invokes no sink, calls onError (when one is supplied) exactly once
\* with the "No data found" failure, emits one general notification and
\* issues no remote request, whatever the configuration and the variant.
C1_EmptyExit ==
    (ExportReturned /\ NothingToExport(last.snapshot)) =>
        /\ last.outcome = "empty"
        /\ Of("sink") = <<>>
        /\ Of("onError") =
              IF last.setError
              THEN <<OnError([title |-> "No data found",
                              detail |-> "No items were found with the provided filters"])>>
              ELSE <<>>
        /\ Len(Of("notify")) = 1
        /\ Of("request") = <<>>
        /\ last.rejected = {} /\ DOMAIN last.fetched = {}
        /\ pending = {}

C1_Witness ==
    /\ ExportReturned /\ last.snapshot.kind = "Loading" /\ last.setError
    /\ last.variant = "enriched" /\ Truthy(dataPassId)
    /\ selectedFields # <<>> /\ selectedExportType = "CSV"

\* C2: for a non-empty success snapshot every row passed to the sink has as
\* keys the selected fields the record has, united with every category name
\* found in the batch, also for a record without annotation in a category.
C2_ColumnKeys ==
    /\ (ExportReturned /\ ~NothingToExport(last.snapshot) /\ ~last.thrown) => Exported
    /\ Exported =>
        /\ Len(Of("sink")) = 1
        /\ LET rows == Of("sink")[1].rows
           IN /\ DOMAIN rows = DOMAIN last.used
              /\ \A k \in DOMAIN rows :
                    Keys(rows[k]) =
                        (Range(last.fields) \cap DOMAIN last.used[k].fields)
                            \cup CategoryNames(last.used)

C2_Witness ==
    /\ Exported
    /\ \E k \in DOMAIN last.used :
          /\ "runDuration" \in Range(last.fields) \ DOMAIN last.used[k].fields
          /\ ~last.used[k].hasQc
          /\ "TPC" \in Keys(Of("sink")[1].rows[k])
          /\ "runDuration" \notin Keys(Of("sink")[1].rows[k])

\* C3: a lookup that rejects empties only the annotations of its own record:
\* the export is dispatched without onError, that record has empty category
\* columns, every other record has exactly what its own lookup returned.
C3_RejectionIsLocal ==
    (ExportReturned /\ last.rejected # {} /\ ~last.thrown) =>
        /\ last.outcome = "exported"
        /\ Of("onError") = <<>>
        /\ Len(Of("sink")) = 1
        /\ LET rows == Of("sink")[1].rows
           IN /\ DOMAIN rows = DOMAIN last.items
              /\ DOMAIN last.used = DOMAIN last.items
              /\ \A k \in DOMAIN last.items :
                    /\ last.used[k].fields = last.items[k].fields
                    /\ k \in last.rejected =>
                          /\ last.used[k].qcFlags = <<>>
                          /\ \A d \in CategoryNames(last.used) : Get(rows[k], d) = ""
                    /\ k \notin last.rejected =>
                          /\ k \in DOMAIN last.fetched
                          /\ last.used[k].qcFlags = last.fetched[k]
                          /\ \A d \in CategoryNames(last.used) :
                                Get(rows[k], d) = join(PerDetectorFlags(last.fetched[k], d), "|")

C3_Witness ==
    /\ Exported /\ last.rejected = {2} /\ DOMAIN last.fetched = {1}
    /\ Get(Of("sink")[1].rows[1], "TPC") # ""
    /\ Get(Of("sink")[1].rows[2], "TPC") = ""

\* C4: when the enrichment phase throws outside the per-record try, the
\* export is aborted: onError (when supplied) gets the "QC flags fetch
\* failed" failure and no sink is invoked.
C4_BatchAbort ==
    (ExportReturned /\ last.thrown) =>
        /\ last.variant = "enriched"
        /\ last.outcome = "aborted"
        /\ Of("sink") = <<>>
        /\ Of("onError") =
              IF last.setError
              THEN <<OnError([title |-> "QC flags fetch failed",
                              detail |-> "Unable to fetch QC flags for export"])>>
              ELSE <<>>

C4_Witness ==
    /\ ExportReturned /\ last.thrown /\ last.setError
    /\ DOMAIN last.fetched # {}
    /\ Len(Of("onError")) = 1 /\ Of("sink") = <<>>

\* C5: without a data pass id the enriched variant sends no request and
\* emits exactly what the base createExport emits for the same snapshot,
\* fields, format, registry and callback, keeping each run's own flags.
C5_UnsetIsBase ==
    /\ \A i \in Calls : calls[i].pc = "fetching" => calls[i].passAtCall # NoDataPass
    /\ (ExportReturned /\ last.variant = "enriched" /\ last.passAtCall = NoDataPass) =>
          /\ effects = OverviewCreateExport(last.snapshot, last.fields, last.type,
                                            last.fileName, last.exportFormats, last.setError)
          /\ Of("request") = <<>>
          /\ last.rejected = {} /\ DOMAIN last.fetched = {}
          /\ last.outcome = "exported" => last.used = last.snapshot.payload

C5_Witness ==
    /\ Exported /\ last.variant = "enriched" /\ last.passAtCall = NoDataPass
    /\ Len(last.used) = 2
    /\ Get(Of("sink")[1].rows[1], "TPC") = "BAD ( from: 10 to: 20 )| ( from: 20 to: 30 )"

\* C6 as stated: the lookups of an enrichment are sent in snapshot order,
\* each settled before the next, and at every moment at most one request is
\* outstanding.
C6_Sequential ==
    \A req \in pending :
        LET c == calls[req.call]
        IN /\ c.pc = "fetching"
           /\ req.idx = c.idx
           /\ req.idx = Cardinality(DOMAIN c.fetched \cup c.rejected) + 1
           /\ req.runNumber = c.items[req.idx].fields.runNumber
           /\ req.limit = 1000

C6_OneOutstanding ==
    C6_Sequential /\ Cardinality(pending) <= 1

\* C6 amended: the lookups of one createExport invocation are sent in
\* snapshot order, each settled before the next, so that every invocation has
\* at most one request outstanding; invocations that overlap have one each.
C6_OnePerInvocation ==
    /\ C6_Sequential
    /\ \A i \in Calls : Cardinality({req \in pending : req.call = i}) <= 1

C6_Witness ==
    /\ Cardinality(pending) = 2
    /\ \E req \in pending : req.idx = 2 /\ DOMAIN calls[req.call].fetched = {1}

\* C7: createExport reads the snapshot once, at its start, and does not
\* change it: the records it exports are those of the snapshot read at the
\* call, whatever is bound or published while a lookup is awaited.
C7_SnapshotAtCall ==
    /\ \A i \in Calls : calls[i].pc = "fetching" =>
          /\ isSuccess(calls[i].snapshot)
          /\ calls[i].items = calls[i].snapshot.payload
    /\ Exported =>
          /\ isSuccess(last.snapshot)
          /\ DOMAIN last.used = DOMAIN last.snapshot.payload
          /\ DOMAIN Of("sink")[1].rows = DOMAIN last.snapshot.payload
          /\ \A k \in DOMAIN last.used :
                last.used[k].fields = last.snapshot.payload[k].fields

C7_ReadOnce ==
    /\ last'.op \in {"createExport", "await"} => itemsSrc' = itemsSrc
    /\ \A i \in Calls :
          (calls[i].pc = "idle" /\ calls'[i].pc = "fetching") => calls'[i].snapshot = itemsSrc
    /\ (last'.op = "createExport" /\ \A i \in Calls : calls[i].pc = "idle") =>
          last'.snapshot = itemsSrc

C7_SnapshotIsolation == []C7_SnapshotAtCall /\ [][C7_ReadOnce]_vars

C7_Witness ==
    /\ Exported /\ last.variant = "enriched" /\ DOMAIN last.fetched # {}
    /\ Len(last.used) = 1
    /\ isSuccess(itemsSrc) /\ Len(itemsSrc.payload) = 2

\* C8: no step of createExport changes the selected fields, the selected
\* format, the items source or the data pass id; each changes only in a
\* call of its setter.
C8_ConfigStep ==
    /\ last'.op \in {"createExport", "await"} => UNCHANGED config
    /\ selectedFields' # selectedFields => last'.op = "setSelectedFields"
    /\ selectedExportType' # selectedExportType => last'.op = "setSelectedExportType"
    /\ itemsSrc' # itemsSrc => last'.op \in {"setItemsSource", "setCurrent"}
    /\ dataPassId' # dataPassId => last'.op = "setDataPassId"

C8_ConfigKept == [][C8_ConfigStep]_vars

C8_Witness ==
    /\ ExportReturned /\ last.outcome = "empty"
    /\ selectedFields = <<"runDuration", "runNumber">> /\ selectedExportType = "CSV"
    /\ last.fields = selectedFields /\ last.type = "CSV"

\* C9: an export invokes exactly one sink; the rows do not depend on the
\* selected format, which only chooses between the CSV sink with
\* "<fileName>.csv" and text/csv;charset=utf-8; and the JSON sink with
\* "<fileName>.json" and application/json; JSON is selected at construction.
C9_FormatOnlyDestination ==
    /\ last.op = "constructor" => selectedExportType = "JSON"
    /\ Exported =>
          /\ Len(Of("sink")) = 1 /\ Len(effects) = 1
          /\ LET call == Of("sink")[1]
             IN /\ call.rows = Formatted(last.used, last.fields, last.exportFormats)
                /\ IF last.type = "CSV"
                   THEN /\ call.sink = "createCSVExport"
                        /\ call.name = last.fileName \o ".csv"
                        /\ call.mime = "text/csv;charset=utf-8;"
                   ELSE /\ call.sink = "createJSONExport"
                        /\ call.name = last.fileName \o ".json"
                        /\ call.mime = "application/json"

C9_Witness ==
    /\ Exported /\ last.type = "CSV"
    /\ Of("sink")[1].name = "runs.csv"
    /\ Len(Of("sink")[1].rows) = 2

\* C10: setSelectedExportType and setSelectedFields store the new value and
\* then emit one general and one visual notification; setSelectedFields
\* leaves exactly the values of the given options, in their order; every
\* change of the selected fields or format, and the early exit of
\* createExport, emits a general notification.
C10_SetterReturned ==
    /\ last.op = "setSelectedExportType" =>
          /\ selectedExportType = last.exportType
          /\ effects = <<Notification("notify", selectedFields, last.exportType),
                         Notification("visualChange", selectedFields, last.exportType)>>
    /\ last.op = "setSelectedFields" =>
          /\ Len(selectedFields) = Len(last.selectedOptions)
          /\ \A k \in DOMAIN selectedFields : selectedFields[k] = last.selectedOptions[k].value
          /\ effects = <<Notification("notify", selectedFields, selectedExportType),
                         Notification("visualChange", selectedFields, selectedExportType)>>
    /\ (ExportReturned /\ last.outcome = "empty") => Len(Of("notify")) = 1

C10_ChangeNotified ==
    (selectedFields' # selectedFields \/ selectedExportType' # selectedExportType) =>
        Len(SelectSeq(effects', LAMBDA e : e.kind = "notify")) = 1

C10_Notifications == []C10_SetterReturned /\ [][C10_ChangeNotified]_vars

C10_Witness ==
    /\ last.op = "setSelectedFields"
    /\ selectedFields = <<"runDuration", "runNumber">>
    /\ Len(Of("visualChange")) = 1
====
